---- MODULE Spec2Model ----
(***************************************************************************)
(* State-machine model of the energy-flow widgets of FLOW12:               *)
(*   - EnergyFlowDiagram hosting StaticInverterNode                        *)
(*       (src/components/backup/static-inverter-node.tsx)                  *)
(*   - StaticSolarPanelNode                                                *)
(*       (src/components/static-nodes/right-angle-connection.tsx)          *)
(*   - StaticMonitorNode                                                   *)
(*       (src/components/static-nodes/static-monitor-node.tsx)             *)
(*                                                                         *)
(* React semantics used throughout.  A component's state lives in its      *)
(* hooks; an event handler or timer callback is a closure over the values  *)
(* of the render that created it.  A setter called with a value replaces   *)
(* the state, a setter called with a function is applied to the state the  *)
(* hook holds at that moment.  A click on the inverter or the diagram is   *)
(* one action: the handler, the re-render and the effects, which React     *)
(* runs before the next event.  The updates of a timer callback are        *)
(* rendered in a later task: a click, or the callback of another timer due *)
(* at the same instant, may come before that render, and then runs on the  *)
(* closure of the render before, with the simulation interval not yet set  *)
(* anew.  The variable closure holds the dependencies of the simulation    *)
(* effect as the last render saw them; Settle is the render that was put   *)
(* off.  The solar panel keeps the value captured by togglePanel as a      *)
(* variable of its own, and its re-render is a separate step.              *)
(*                                                                         *)
(* Units.  Time is counted in quanta of Quantum ms (every delay in the     *)
(* source is a multiple of it); Pass lets time go by with no timer due, so *)
(* that a click comes at any quantum.  Real-valued readings are            *)
(* fixed-point integers: temperature in 1/TScale degree, batteryLevel in   *)
(* 1/BScale percent, frequencies in 1/FScale Hz, screenBrightness in       *)
(* tenths, energy in 1/EScale kWh, sunIntensity in 1/SScale percent.  The  *)
(* scales are chosen so that the readings of the behaviours followed are   *)
(* exact; a division that is not exact is rounded down.                    *)
(***************************************************************************)
EXTENDS Integers, Sequences, FiniteSets, TLC

\* ---------------------------------------------------------------- bounds
\* A behaviour is followed for so many events of each kind.
MaxClicks == 1        \* clicks, inverter and diagram
MaxTicks == 3         \* callbacks of the simulation interval
MaxWaits == 1         \* waits between two events
MaxHeatClicks == 1    \* clicks, where the readings are looked at
MaxHeatTicks == 2     \* callbacks of the interval, the same
MaxPresses == 3       \* clicks, where the buttons are looked at
MaxPressTicks == 1    \* callbacks of the interval, the same
MaxBootClicks == 4    \* clicks, where the screen is looked at
MaxBootTicks == 2     \* callbacks of the interval, the same
MaxFaultClicks == 2   \* clicks, where the fault is looked at
MaxFaultTicks == 5    \* callbacks of the interval, the same
MaxDataTicks == 2     \* data ticks of the monitor
MaxOps == 2           \* operations of the solar panel
MaxRemountClicks == 2 \* clicks and mounts, where mounting anew is looked at
MaxRemountOps == 1    \* operations of a panel or monitor then mounted anew

\* ------------------------------------------------------------ fixed point
TScale == 10000000
BScale == 15000000
FScale == 10000
EScale == 10000000
SScale == 1000000

\* milliseconds in one unit of time
Quantum == 50

\* a delay given in milliseconds
Ms(n) == n \div Quantum

Min(a, b) == IF a < b THEN a ELSE b
Max(a, b) == IF a > b THEN a ELSE b

VARIABLES
  \* EnergyFlowDiagram
  isActive, isAnimating,
  inverterOn, switchOn, bulbOn, illuminated, connectionActive,
  \* StaticInverterNode
  props,
  gridConnected, solarConnected, batteryConnected,
  temperature, loadPercentage, inputVoltage, inputFrequency, outputFrequency,
  batteryLevel, batteryCharging, totalEnergyGenerated, fanSpeed,
  mode, selectedMode, faultCondition,
  screenActive, configMode, displayOption, screenBrightness, bootupPhase,
  showActivatePrompt,
  \* the src of the inverter's <audio> elements, the volume states
  audioSrc, humVolume, fanVolume,
  \* the dependencies of the simulation effect as the last render saw them
  closure,
  \* timers of the diagram and the inverter, history
  timers, clicks, activationClicks, ticks, waits, lastEvent,
  \* how many times each widget has been mounted anew
  mounts,
  \* the props the inverter was mounted with
  mounted,
  \* how many clicks and ticks the behaviour is followed for
  budget,
  \* StaticSolarPanelNode
  solarProps, panelOn, closurePanelOn, sunIntensity, tiltAngle, timeOfDay, weather,
  orientation, outputPower, renderPending,
  panelChanges, panelStates, usedControls, ops, lastOp,
  \* StaticMonitorNode
  monitorOn, chartData, dataTicks, lastData

hostVars == <<isActive, isAnimating, inverterOn, switchOn, bulbOn, illuminated,
              connectionActive>>
connVars == <<gridConnected, solarConnected, batteryConnected>>
readingVars == <<temperature, loadPercentage, inputVoltage, inputFrequency,
                 outputFrequency, batteryLevel, batteryCharging,
                 totalEnergyGenerated, fanSpeed>>
modeVars == <<mode, selectedMode>>
screenVars == <<screenActive, configMode, displayOption, screenBrightness,
                bootupPhase>>
audioVars == <<audioSrc, humVolume, fanVolume>>
invVars == <<props, connVars, readingVars, modeVars, faultCondition, screenVars,
             showActivatePrompt, audioVars, closure>>
histVars == <<timers, clicks, activationClicks, ticks, waits, lastEvent>>
solarVars == <<solarProps, panelOn, closurePanelOn, sunIntensity, tiltAngle,
               timeOfDay, weather, orientation, outputPower, renderPending,
               panelChanges, panelStates, usedControls, ops, lastOp>>
monitorVars == <<monitorOn, chartData, dataTicks, lastData>>
vars == <<hostVars, invVars, histVars, mounts, mounted, budget, solarVars, monitorVars>>

\* ------------------------------------------------------------------ timers
\* The component whose state setters a callback calls.
Owner(cb) == IF cb = "resetAnimation" THEN "diagram" ELSE "inverter"

\* A pending setTimeout/setInterval: the callback, the quanta left until it is
\* due, the value its closure captured, and the instance of the owner whose
\* render registered it.  The queue is kept in firing order: by due time, and
\* by registration order among equal due times.
Timer(cb, rem, arg) ==
  [cb |-> cb, rem |-> rem, arg |-> arg, inst |-> mounts[Owner(cb)]]

\* Fault model: a setter acts on whichever instance is mounted.
AnyInstance(t) == TRUE

\* A state setter acts on the instance that created it; called after that
\* instance was unmounted it changes nothing.
Live(t) == t.inst = mounts[Owner(t.cb)]

InsertTimer(q, t) ==
  LET k == Cardinality({i \in 1..Len(q) : q[i].rem <= t.rem})
  IN SubSeq(q, 1, k) \o <<t>> \o SubSeq(q, k + 1, Len(q))

RECURSIVE AddTimers(_, _)
AddTimers(q, ts) ==
  IF ts = <<>> THEN q ELSE AddTimers(InsertTimer(q, Head(ts)), Tail(ts))

\* d units of time go by.
Later(q, d) == [i \in 1..Len(q) |-> [q[i] EXCEPT !.rem = q[i].rem - d]]

\* Time passes until the head of the queue is due; the head is removed.
Elapse(q) == Tail(Later(q, Head(q).rem))

IntervalPeriod == Ms(1000)
FaultResetLow == Ms(5000)
FaultResetRandom == Ms(3000)
AnimationDuration == Ms(3000)

\* The dependency list of the simulation effect: when one of these changes
\* the effect's cleanup clears the interval and the effect sets a new one.
\* The callback of the interval is a closure over these values.
Deps ==
  [inverterOn |-> inverterOn, loadPercentage |-> loadPercentage,
   temperature |-> temperature, fanSpeed |-> fanSpeed, mode |-> mode,
   solarConnected |-> solarConnected, gridConnected |-> gridConnected,
   batteryConnected |-> batteryConnected, batteryLevel |-> batteryLevel,
   batteryCharging |-> batteryCharging, faultCondition |-> faultCondition,
   outputFrequency |-> outputFrequency, inputVoltage |-> inputVoltage]

\* No render is pending: the closures are those of the state as it is.
Rendered == closure = Deps

NotInterval(t) == t.cb # "interval"

Rearm(q) == InsertTimer(SelectSeq(q, NotInterval), Timer("interval", IntervalPeriod, 0))

\* ------------------------------------------------- StaticInverterNode props
\* Mount-time props of the inverter.  DefaultProps is what EnergyFlowDiagram
\* passes while inactive together with the defaults of the parameter list;
\* the others are the first render of a parent that passes readings too.
DefaultProps ==
  [gridConnected |-> FALSE, solarConnected |-> FALSE, batteryConnected |-> FALSE,
   loadPercentage |-> 0, inputVoltage |-> 48, frequency |-> 50,
   batteryLevel |-> 80 * BScale, batteryCharging |-> FALSE,
   totalEnergyGenerated |-> 235 * (EScale \div 10), temperature |-> 45 * TScale,
   fanSpeed |-> 40, mode |-> "normal"]

PvProps ==
  [DefaultProps EXCEPT !.solarConnected = TRUE, !.batteryConnected = TRUE,
                       !.loadPercentage = 60, !.mode = "pv",
                       !.temperature = 50 * TScale]

HotProps ==
  [DefaultProps EXCEPT !.gridConnected = TRUE, !.loadPercentage = 100,
                       !.temperature = 70 * TScale, !.fanSpeed = 100,
                       !.batteryLevel = 100 * BScale, !.batteryConnected = TRUE,
                       !.solarConnected = TRUE]

LowBatteryProps ==
  [DefaultProps EXCEPT !.batteryConnected = TRUE, !.loadPercentage = 90,
                       !.mode = "battery", !.temperature = 30 * TScale,
                       !.fanSpeed = 0, !.batteryLevel = 0,
                       !.frequency = 0]

WarmProps ==
  [HotProps EXCEPT !.loadPercentage = 80, !.temperature = 60 * TScale,
                   !.fanSpeed = 80, !.batteryLevel = 50 * BScale]

MountProps == {DefaultProps, PvProps, HotProps, WarmProps, LowBatteryProps}

\* A parent that passes a batteryLevel above 100.
OverchargedProps == [PvProps EXCEPT !.batteryLevel = 120 * BScale]

\* Parents that pass a fanSpeed below 0, a loadPercentage below 0 and a
\* loadPercentage above 100: the props are numbers, and nothing clamps them.
ReversedFanProps == [HotProps EXCEPT !.fanSpeed = 0 - 40]

NegativeLoadProps ==
  [DefaultProps EXCEPT !.loadPercentage = 0 - 10, !.temperature = 20 * TScale]

OverloadProps ==
  [DefaultProps EXCEPT !.loadPercentage = 120, !.temperature = 68 * TScale]

AnyProps ==
  MountProps \cup {OverchargedProps, ReversedFanProps, NegativeLoadProps,
                   OverloadProps}

modes == <<"normal", "pv", "battery">>

ModeIndex(m) == IF m = "normal" THEN 0 ELSE IF m = "pv" THEN 1 ELSE 2

\* Math.random() yields r/1000 for a sample r in 0..999.
Thousandths == 0..999

\* The samples followed where the outcome is a real number: the two ends,
\* and values between them that give every outcome of Math.round(r * 5).
RandomSamples == {0, 100, 300, 500, 700, 999}

\* The six values Math.random() returns in one callback of the heatup
\* interval, by what they are used for.  Followed are the callbacks in which
\* every call returns the same sample, and those with the variation, the
\* jitter and the fault at either end and the others in the middle.
Uniform(r) ==
  [variation |-> r, jitter |-> r, generation |-> r, grid |-> r, output |-> r,
   fault |-> r]

Draws ==
  {Uniform(r) : r \in RandomSamples}
  \cup [variation : {0, 999}, jitter : {0, 999}, generation : {500},
        grid : {500}, output : {500}, fault : {0, 999}]

\* Every call returns 0.5.
CalmDraws == {Uniform(500)}

\* Every call returns 0, with which the random fault is raised, or 0.5.
FaultDraws == {Uniform(0), Uniform(500)}

\* Math.random() * 2 - 1, in 1/TScale degree
Variation(r) == (2 * r - 1000) * (TScale \div 1000)
\* Math.round(Math.random() * 5)
Jitter(r) == (5 * r + 500) \div 1000
\* 0.001 * (1 + (Math.random() * 0.2 - 0.1)), in 1/EScale kWh
GenerationRate(r) == 9000 + 2 * r
\* 49.8 + Math.random() * 0.4, in 1/FScale Hz
GridFrequency(r) == 498000 + 4 * r
\* 49.9 + Math.random() * 0.2, in 1/FScale Hz
OutFrequency(r) == 499000 + 2 * r
\* Math.random() < 0.001
RandomFault(r) == r < 1

Event(kind) ==
  [kind |-> kind, on |-> inverterOn, screen |-> screenActive,
   load |-> loadPercentage, temp |-> temperature, target |-> 0,
   battery |-> batteryLevel, fan |-> fanSpeed]


\* ------------------------------------------------------------ activateScreen
\* The four timeouts activateScreen registers (100, 1200, 2400, 3500 ms).
ActivateScreenTimers ==
  <<Timer("setScreenBrightness", Ms(100), 2), Timer("bootup", Ms(1200), 1),
    Timer("bootup", Ms(2400), 2), Timer("bootup", Ms(3500), 3)>>

\* Fault model: the load restored from a reading the simulation writes.
PowerOnTimersFromReading ==
  <<Timer("setLoadPercentage", Ms(500), fanSpeed),
    Timer("setFanSpeed", Ms(1000), 20),
    Timer("setOutputFrequency", Ms(1500),
          IF props.frequency = 0 THEN 50 * FScale ELSE props.frequency * FScale)>>

\* The three timeouts of toggleInverter's power-on sequence (500, 1000, 1500 ms);
\* they capture the props of the render the handler belongs to.
PowerOnTimers ==
  <<Timer("setLoadPercentage", Ms(500), props.loadPercentage),
    Timer("setFanSpeed", Ms(1000), 20),
    Timer("setOutputFrequency", Ms(1500),
          IF props.frequency = 0 THEN 50 * FScale ELSE props.frequency * FScale)>>

BootBrightness(phase) == IF phase = 1 THEN 3 ELSE IF phase = 2 THEN 6 ELSE 10

\* Commit of an action of the inverter or the diagram: the re-render, whose
\* closures are over the new state, the timers the action left pending, and
\* the simulation interval set anew when a dependency of the effect differs
\* from the one the last render saw.
Commit(q) ==
  /\ closure' = Deps'
  /\ timers' = IF Deps' # closure THEN Rearm(q) ELSE q

\* The re-render of a timer callback's updates put off: the callback returns
\* to the event loop, and React renders in a later task.  Until then the
\* handlers and the interval are those of the render before.
Defer(q) ==
  /\ Deps' # closure
  /\ closure' = closure
  /\ timers' = q

\* What follows a timer callback: the re-render before anything else
\* happens, or after the clicks and the callbacks that come first.
AfterCallback(q) == Commit(q) \/ Defer(q)

\* activateScreen as called from a handler whose render saw screenActive FALSE.
ScreenActivated ==
  /\ screenActive' = TRUE
  /\ bootupPhase' = 0
  /\ screenBrightness' = 1

\* ------------------------------------------------------- EnergyFlowDiagram
\* The props the diagram derives from isActive on every render.
RenderDiagram ==
  /\ inverterOn' = isActive'
  /\ switchOn' = isActive'
  /\ bulbOn' = isActive'
  /\ illuminated' = isActive'
  /\ connectionActive' = [i \in 1..3 |-> isActive']

\* The props the diagram gives the inverter on a render: four of them follow
\* isActive, the others are as at the mount.  The inverter reads them on its
\* first render (the hooks' initial values) and in toggleInverter.
HostProps(p, active) ==
  [p EXCEPT !.solarConnected = active, !.gridConnected = FALSE,
            !.batteryConnected = active,
            !.loadPercentage = IF active THEN 60 ELSE 0,
            !.mode = IF active THEN "pv" ELSE "normal"]

\* Fault model: the setter given TRUE instead of the negation.
StuckActive(active) == TRUE

\* setIsActive(!isActive)

NextActive(active) == ~active

\* Click on the Activate/Deactivate button.
toggleActivation ==
  /\ clicks < budget.clicks
  /\ isActive' = NextActive(isActive)
  /\ isAnimating' = IF ~isActive THEN TRUE ELSE isAnimating
  /\ RenderDiagram
  \* effect of the inverter on [inverterOn]
  /\ showActivatePrompt' = ~inverterOn'
  /\ props' = HostProps(props, isActive')
  /\ UNCHANGED <<mounts, mounted, budget, connVars, readingVars, modeVars, faultCondition,
                 screenVars, audioVars>>
  /\ clicks' = clicks + 1
  /\ activationClicks' = activationClicks + 1
  /\ UNCHANGED <<ticks, waits>>
  /\ lastEvent' = Event("toggleActivation")
  /\ Commit(IF ~isActive
            THEN InsertTimer(timers, Timer("resetAnimation", AnimationDuration, 0))
            ELSE timers)
  /\ UNCHANGED <<solarVars, monitorVars>>

\* ------------------------------------------------------------ toggleInverter
\* toggleInverter; onInverterChange is the diagram's () => {}, so the
\* inverterOn prop is whatever the diagram last rendered.  extra is TRUE for
\* the ENTER button, whose handler goes on after toggleInverter returns.
\* Fault model: the solar input connected in every mode.
PowerOnSolarAlways(m) == TRUE

\* setSolarConnected of the power-on sequence: true in pv mode, false in the
\* two others.
PowerOnSolar(m) == m = "pv"

ToggleInverterEffect(extra) ==
  IF ~inverterOn
  THEN \* power on
    /\ IF ~screenActive
       THEN ScreenActivated
       ELSE UNCHANGED <<screenActive, bootupPhase, screenBrightness>>
    /\ gridConnected' = (IF mode = "normal" THEN TRUE ELSE FALSE)
    /\ solarConnected' = PowerOnSolar(mode)
    /\ batteryConnected' = (IF mode = "normal" THEN batteryConnected ELSE TRUE)
    /\ UNCHANGED <<readingVars>>
    /\ Commit(LET q1 == IF ~screenActive
                        THEN AddTimers(timers, ActivateScreenTimers) ELSE timers
                  q2 == AddTimers(q1, PowerOnTimers)
              IN IF extra /\ ~screenActive
                 THEN AddTimers(q2, ActivateScreenTimers) ELSE q2)
  ELSE \* power off
    /\ loadPercentage' = 0
    /\ fanSpeed' = 0
    /\ outputFrequency' = 0
    /\ inputFrequency' = 0
    /\ screenActive' = FALSE
    /\ screenBrightness' = 0
    /\ UNCHANGED <<bootupPhase, connVars, temperature, inputVoltage, batteryLevel,
                   batteryCharging, totalEnergyGenerated>>
    /\ Commit(timers)

InverterClick(kind) ==
  /\ clicks < budget.clicks
  /\ clicks' = clicks + 1
  /\ lastEvent' = Event(kind)
  /\ UNCHANGED <<hostVars, props, mounts, mounted, budget, activationClicks, ticks, waits,
                 showActivatePrompt, audioVars, solarVars, monitorVars>>

\* ENTER button.
EnterClick ==
  /\ InverterClick("ENTER")
  /\ UNCHANGED <<modeVars, faultCondition, configMode, displayOption>>
  /\ ToggleInverterEffect(TRUE)

\* Activate prompt, rendered while showActivatePrompt.
PromptClick ==
  /\ showActivatePrompt
  /\ InverterClick("Activate")
  /\ UNCHANGED <<modeVars, faultCondition, configMode, displayOption>>
  /\ ToggleInverterEffect(FALSE)

\* CONF button.
ConfClick ==
  /\ InverterClick("CONF")
  /\ configMode' = ~configMode
  /\ IF ~screenActive
     THEN ScreenActivated
     ELSE UNCHANGED <<screenActive, bootupPhase, screenBrightness>>
  /\ displayOption' = IF configMode THEN (displayOption + 1) % 3 ELSE displayOption
  /\ UNCHANGED <<connVars, readingVars, modeVars, faultCondition>>
  /\ Commit(IF ~screenActive THEN AddTimers(timers, ActivateScreenTimers) ELSE timers)

\* Fault model: the cycle run backwards.
newModeIndexBackwards(sel) == (sel + 2) % 3

\* changeMode: const newModeIndex = (selectedMode + 1) % 3
newModeIndex(sel) == (sel + 1) % 3

\* First SELECT button: changeMode, then the connections by the mode the
\* handler's render saw.
Select1Click ==
  /\ InverterClick("SELECT1")
  /\ UNCHANGED <<readingVars, faultCondition, configMode, displayOption>>
  /\ IF screenActive
     THEN /\ selectedMode' = newModeIndex(selectedMode)
          /\ mode' = modes[newModeIndex(selectedMode) + 1]
          /\ solarConnected' = (IF mode = "pv" THEN TRUE ELSE solarConnected)
          /\ gridConnected' = (IF mode = "normal" THEN TRUE ELSE FALSE)
          /\ batteryConnected' = (IF mode = "battery" THEN TRUE ELSE batteryConnected)
          /\ UNCHANGED <<screenActive, bootupPhase, screenBrightness>>
          /\ Commit(timers)
     ELSE /\ ScreenActivated
          /\ UNCHANGED <<modeVars, connVars>>
          /\ Commit(AddTimers(timers, ActivateScreenTimers))

\* setLoadPercentage((prev) => Math.min(100, prev + 10)), then
\* setLoadPercentage(0) when the handler's render saw a load above 90: prev
\* is the load the hook holds, seen the load of the render the handler
\* belongs to.
Select2Load(prev, seen) == IF seen > 90 THEN 0 ELSE Min(100, prev + 10)

\* Second SELECT button.
Select2Click ==
  /\ InverterClick("SELECT2")
  /\ UNCHANGED <<connVars, modeVars, faultCondition, configMode>>
  /\ IF screenActive
     THEN /\ displayOption' = (displayOption + 1) % 3
          /\ inputVoltage' = (IF inputVoltage = 48 THEN 52
                              ELSE IF inputVoltage = 52 THEN 56 ELSE 48)
          /\ loadPercentage' = Select2Load(loadPercentage, closure.loadPercentage)
          /\ UNCHANGED <<screenActive, bootupPhase, screenBrightness, temperature,
                         inputFrequency, outputFrequency, batteryLevel,
                         batteryCharging, totalEnergyGenerated, fanSpeed>>
          /\ Commit(timers)
     ELSE /\ ScreenActivated
          /\ UNCHANGED <<displayOption, readingVars>>
          /\ Commit(AddTimers(timers, ActivateScreenTimers))


\* ----------------------------------------------------------- timer callbacks
\* The callback the browser runs next.  With a re-render put off, only a
\* callback that is due at this instant runs before it: the render comes
\* before any time goes by.
Due(cb) ==
  /\ timers # <<>>
  /\ Head(timers).cb = cb
  /\ Live(Head(timers))
  /\ Rendered \/ Head(timers).rem = 0

\* The re-render React had put off, and the effect: the interval is cleared
\* and set anew, since a dependency has changed.
Settle ==
  /\ ~Rendered
  /\ closure' = Deps
  /\ timers' = Rearm(timers)
  /\ lastEvent' = Event("render")
  /\ UNCHANGED <<hostVars, props, connVars, readingVars, modeVars, faultCondition,
                 screenVars, showActivatePrompt, audioVars, mounts, mounted, budget, clicks,
                 activationClicks, ticks, waits, solarVars, monitorVars>>

\* Time goes by before a click, and no timer is due: the click comes d units
\* later.
Pass ==
  /\ Rendered
  /\ waits < budget.waits
  /\ timers # <<>>
  /\ clicks < budget.clicks
  /\ \E d \in 1..(Head(timers).rem - 1) : timers' = Later(timers, d)
  /\ waits' = waits + 1
  /\ lastEvent' = Event("wait")
  /\ UNCHANGED <<hostVars, invVars, mounts, mounted, budget, clicks, activationClicks, ticks,
                 solarVars, monitorVars>>

TimerEvent(kind) ==
  /\ lastEvent' = Event(kind)
  /\ UNCHANGED <<props, mounts, mounted, budget, clicks, activationClicks, waits,
                 showActivatePrompt,
                 audioVars, inverterOn, switchOn, bulbOn, illuminated,
                 connectionActive, isActive, solarVars, monitorVars>>

\* setTimeout(() => setScreenBrightness(0.2), 100)
BrightnessTimeout ==
  /\ Due("setScreenBrightness")
  /\ TimerEvent("setScreenBrightness")
  /\ screenBrightness' = Head(timers).arg
  /\ UNCHANGED <<isAnimating, ticks, connVars, readingVars, modeVars, faultCondition,
                 screenActive, configMode, displayOption, bootupPhase>>
  /\ AfterCallback(Elapse(timers))

\* The timeouts at 1200, 2400 and 3500 ms of activateScreen.
BootupTimeout ==
  /\ Due("bootup")
  /\ TimerEvent("bootup")
  /\ bootupPhase' = Head(timers).arg
  /\ screenBrightness' = BootBrightness(Head(timers).arg)
  /\ UNCHANGED <<isAnimating, ticks, connVars, readingVars, modeVars, faultCondition,
                 screenActive, configMode, displayOption>>
  /\ AfterCallback(Elapse(timers))

\* setTimeout(() => setLoadPercentage(initialLoadPercentage || 0), 500)
LoadTimeout ==
  /\ Due("setLoadPercentage")
  /\ TimerEvent("setLoadPercentage")
  /\ loadPercentage' = Head(timers).arg
  /\ UNCHANGED <<isAnimating, ticks, connVars, modeVars, faultCondition, screenVars,
                 temperature, inputVoltage, inputFrequency, outputFrequency,
                 batteryLevel, batteryCharging, totalEnergyGenerated, fanSpeed>>
  /\ AfterCallback(Elapse(timers))

\* setTimeout(() => setFanSpeed(20), 1000)
FanTimeout ==
  /\ Due("setFanSpeed")
  /\ TimerEvent("setFanSpeed")
  /\ fanSpeed' = Head(timers).arg
  /\ UNCHANGED <<isAnimating, ticks, connVars, modeVars, faultCondition, screenVars,
                 temperature, loadPercentage, inputVoltage, inputFrequency,
                 outputFrequency, batteryLevel, batteryCharging,
                 totalEnergyGenerated>>
  /\ AfterCallback(Elapse(timers))

\* setTimeout(() => setOutputFrequency(initialFrequency || 50), 1500)
OutputFrequencyTimeout ==
  /\ Due("setOutputFrequency")
  /\ TimerEvent("setOutputFrequency")
  /\ outputFrequency' = Head(timers).arg
  /\ UNCHANGED <<isAnimating, ticks, connVars, modeVars, faultCondition, screenVars,
                 temperature, loadPercentage, inputVoltage, inputFrequency,
                 batteryLevel, batteryCharging, totalEnergyGenerated, fanSpeed>>
  /\ AfterCallback(Elapse(timers))

\* setTimeout(() => setFaultCondition(false), 5000 or 3000)
FaultResetTimeout ==
  /\ Due("resetFault")
  /\ TimerEvent("resetFault")
  /\ faultCondition' = FALSE
  /\ UNCHANGED <<isAnimating, ticks, connVars, readingVars, modeVars, screenVars>>
  /\ AfterCallback(Elapse(timers))

\* setTimeout(() => setIsAnimating(false), 3000) of the diagram
AnimationResetTimeout ==
  /\ Due("resetAnimation")
  /\ TimerEvent("resetAnimation")
  /\ isAnimating' = FALSE
  /\ UNCHANGED <<ticks, connVars, readingVars, modeVars, faultCondition, screenVars>>
  /\ AfterCallback(Elapse(timers))

\* --------------------------------------------------------- simulation effect
\* The interval goes on with its period after a callback has run.
NextInterval(q) == InsertTimer(Elapse(q), Timer("interval", IntervalPeriod, 0))

\* Fault model: the cooldown without Math.max(.., 35).
CooldownNoFloor(prev) == prev - ((prev - 35 * TScale) \div 10)

\* prev - (prev - 35) / 10, not below 35
CooldownTemperature(prev) ==
  Max(prev - ((prev - 35 * TScale) \div 10), 35 * TScale)

\* cooldownInterval: the interval of a render with inverterOn FALSE.
CooldownTick ==
  /\ Due("interval")
  /\ ~closure.inverterOn
  /\ ticks < budget.ticks
  /\ ticks' = ticks + 1
  /\ TimerEvent("cooldownTick")
  /\ temperature' = CooldownTemperature(temperature)
  /\ UNCHANGED <<isAnimating, connVars, modeVars, faultCondition, screenVars,
                 loadPercentage, inputVoltage, inputFrequency, outputFrequency,
                 batteryLevel, batteryCharging, totalEnergyGenerated, fanSpeed>>
  /\ AfterCallback(NextInterval(timers))

\* 35 + loadFactor * 30 + randomVariation
TargetTemp(load, variation) == 35 * TScale + load * (3 * (TScale \div 10)) + variation

\* loadFactor * 1.5 and coolingEffect * 2.5, in 1/TScale degree
HeatRate(load) == load * (15 * (TScale \div 1000))
CoolRate(fan) == fan * (25 * (TScale \div 1000))

\* Fault model: heating and cooling not stopped at the target.
HeatupOvershoot(prev, load, fan, target) ==
  IF prev < target THEN prev + HeatRate(load) ELSE prev - CoolRate(fan)

\* The updater of setTemperature: prev is the value the hook holds, load and
\* fan are the values of the render the interval belongs to.
HeatupTemperature(prev, load, fan, target) ==
  IF prev < target
  THEN Min(prev + HeatRate(load), target)
  ELSE Max(prev - CoolRate(fan), target)

\* Fault model: the two middle bands exchanged.
FanCurveShifted(temp, jitter) ==
  IF temp > 65 * TScale THEN 100
  ELSE IF temp > 55 * TScale THEN 60 + jitter
  ELSE IF temp > 45 * TScale THEN 80 + jitter
  ELSE IF temp > 40 * TScale THEN 40 + jitter
  ELSE 20 + jitter

\* Fan curve, by the temperature of the render the interval belongs to.
FanCurve(temp, jitter) ==
  IF temp > 65 * TScale THEN 100
  ELSE IF temp > 55 * TScale THEN 80 + jitter
  ELSE IF temp > 45 * TScale THEN 60 + jitter
  ELSE IF temp > 40 * TScale THEN 40 + jitter
  ELSE 20 + jitter

\* Fault model: charging whatever the load.
ChargingAnyLoad(c) == c.solarConnected

\* The branches of the battery, by the values c of the render.
Charging(c) == c.solarConnected /\ c.loadPercentage < 80
Discharging(c) == ~Charging(c) /\ c.loadPercentage > 0

\* 0.01 * (1 - batteryLevel / 150), in 1/BScale percent, rounded down
ChargeRate(level) == BScale \div 100 - (level + 14999) \div 15000
\* 0.02 * (loadPercentage / 50), in 1/BScale percent
DischargeRate(load) == load * (BScale \div 2500)

\* Fault model: charge and discharge without Math.min / Math.max.
BatteryUnclamped(prev, c) ==
  IF ~c.batteryConnected THEN prev
  ELSE IF Charging(c) THEN prev + ChargeRate(c.batteryLevel)
  ELSE IF Discharging(c) THEN prev - DischargeRate(c.loadPercentage)
  ELSE prev

\* setBatteryLevel of the battery branch; the rates read the battery level
\* and the load of the render, the updater the level the hook holds.
BatteryAfterTick(prev, c) ==
  IF ~c.batteryConnected THEN prev
  ELSE IF Charging(c) THEN Min(prev + ChargeRate(c.batteryLevel), 100 * BScale)
  ELSE IF Discharging(c) THEN Max(prev - DischargeRate(c.loadPercentage), 0)
  ELSE prev

LowBatteryFault(c) ==
  /\ c.batteryConnected
  /\ Discharging(c)
  /\ c.batteryLevel < 10 * BScale
  /\ ~c.faultCondition
  /\ c.mode = "battery"

\* Fault model: the low-battery fault raised without its reset timeout.
FaultResetsRandomOnly(q, low, rnd) ==
  IF rnd THEN InsertTimer(q, Timer("resetFault", FaultResetRandom, 0)) ELSE q

\* The setTimeout(() => setFaultCondition(false), ..) a tick registers with
\* each fault it raises: 5000 ms for the low battery, 3000 ms for the random
\* fault.
FaultResets(q, low, rnd) ==
  LET q1 == IF low THEN InsertTimer(q, Timer("resetFault", FaultResetLow, 0)) ELSE q
  IN IF rnd THEN InsertTimer(q1, Timer("resetFault", FaultResetRandom, 0)) ELSE q1

\* heatupInterval: the interval of a render with inverterOn TRUE.  What the
\* callback reads outside an updater is the closure's.
HeatupTick ==
  /\ Due("interval")
  /\ closure.inverterOn
  /\ ticks < budget.ticks
  /\ ticks' = ticks + 1
  /\ UNCHANGED <<props, mounts, mounted, budget, clicks, activationClicks, waits,
                 showActivatePrompt, audioVars, hostVars, connVars, modeVars,
                 screenVars, solarVars, monitorVars>>
  /\ \E d \in budget.draws :
       LET c == closure
           target == TargetTemp(c.loadPercentage, Variation(d.variation))
           low == LowBatteryFault(c)
           rnd == RandomFault(d.fault) /\ ~c.faultCondition
       IN /\ lastEvent' = [Event("heatupTick") EXCEPT !.target = target,
                                                     !.load = c.loadPercentage,
                                                     !.fan = c.fanSpeed]
          /\ temperature' = HeatupTemperature(temperature, c.loadPercentage,
                                              c.fanSpeed, target)
          /\ fanSpeed' = FanCurve(c.temperature, Jitter(d.jitter))
          /\ totalEnergyGenerated' =
               (IF c.solarConnected /\ c.mode = "pv"
                THEN totalEnergyGenerated + GenerationRate(d.generation)
                ELSE totalEnergyGenerated)
          /\ batteryCharging' = (IF c.batteryConnected THEN Charging(c)
                                 ELSE batteryCharging)
          /\ batteryLevel' = BatteryAfterTick(batteryLevel, c)
          /\ faultCondition' = (IF low \/ rnd THEN TRUE ELSE faultCondition)
          /\ inputFrequency' = (IF c.mode = "normal" /\ c.gridConnected
                                THEN GridFrequency(d.grid) ELSE 0)
          /\ outputFrequency' = (IF c.outputFrequency > 0
                                 THEN OutFrequency(d.output) ELSE outputFrequency)
          /\ UNCHANGED <<loadPercentage, inputVoltage>>
          /\ AfterCallback(FaultResets(NextInterval(timers), low, rnd))


\* ------------------------------------------------------------- audio assets
\* The src attributes the four <audio> elements are rendered with.
Assets == {"inverter-hum.mp3", "fan-noise.mp3", "button-click.mp3", "alarm.mp3"}

AudioFiles == [a \in Assets |-> "file"]

\* Fault model: the element is left with the source that failed.
SourceKept(src) == src

\* target.src = URL.createObjectURL(silentBlob)
SilentSource(src) == "blob"

\* onError of an <audio> element: its source, the file or the blob put in
\* its place, fails to load.
AudioError ==
  \E a \in Assets :
    /\ clicks < budget.clicks
    /\ clicks' = clicks + 1
    /\ lastEvent' = Event(a)
    /\ UNCHANGED <<hostVars, props, mounts, mounted, budget, activationClicks, ticks, waits,
                   showActivatePrompt, solarVars, monitorVars>>
    /\ audioSrc' = [audioSrc EXCEPT ![a] = SilentSource(@)]
    /\ humVolume' = IF a = "inverter-hum.mp3" THEN 0 ELSE humVolume
    /\ fanVolume' = IF a = "fan-noise.mp3" THEN 0 ELSE fanVolume
    /\ UNCHANGED <<connVars, readingVars, modeVars, faultCondition, screenVars>>
    \* with a re-render, or with none when no state has changed
    /\ Commit(timers) \/ UNCHANGED <<closure, timers>>

\* ------------------------------------------------------------ unmount, mount
\* Fault model: the hooks' values kept outside the component.
HooksKept(p, on) ==
  [gridConnected |-> gridConnected, solarConnected |-> solarConnected,
   batteryConnected |-> batteryConnected, temperature |-> temperature,
   loadPercentage |-> loadPercentage, inputVoltage |-> inputVoltage,
   inputFrequency |-> inputFrequency, outputFrequency |-> outputFrequency,
   batteryLevel |-> batteryLevel, batteryCharging |-> batteryCharging,
   totalEnergyGenerated |-> totalEnergyGenerated, fanSpeed |-> fanSpeed,
   mode |-> mode, selectedMode |-> selectedMode,
   faultCondition |-> faultCondition, screenActive |-> screenActive,
   configMode |-> configMode, displayOption |-> displayOption,
   screenBrightness |-> screenBrightness, bootupPhase |-> bootupPhase,
   showActivatePrompt |-> showActivatePrompt]

\* The initial values of the inverter's useState hooks, from the props.
InitialHooks(p, on) ==
  [gridConnected |-> p.gridConnected, solarConnected |-> p.solarConnected,
   batteryConnected |-> p.batteryConnected, temperature |-> p.temperature,
   loadPercentage |-> p.loadPercentage, inputVoltage |-> p.inputVoltage,
   inputFrequency |-> 0,
   outputFrequency |-> IF p.frequency = 0 THEN 50 * FScale ELSE p.frequency * FScale,
   batteryLevel |-> p.batteryLevel, batteryCharging |-> p.batteryCharging,
   totalEnergyGenerated |-> p.totalEnergyGenerated, fanSpeed |-> p.fanSpeed,
   mode |-> p.mode, selectedMode |-> ModeIndex(p.mode),
   faultCondition |-> FALSE, screenActive |-> FALSE,
   configMode |-> FALSE, displayOption |-> 0,
   screenBrightness |-> 10, bootupPhase |-> 0,
   showActivatePrompt |-> ~on]

\* A new instance of the inverter: every hook starts from its initial value.
NewInverter(h) ==
  /\ gridConnected' = h.gridConnected
  /\ solarConnected' = h.solarConnected
  /\ batteryConnected' = h.batteryConnected
  /\ temperature' = h.temperature
  /\ loadPercentage' = h.loadPercentage
  /\ inputVoltage' = h.inputVoltage
  /\ inputFrequency' = h.inputFrequency
  /\ outputFrequency' = h.outputFrequency
  /\ batteryLevel' = h.batteryLevel
  /\ batteryCharging' = h.batteryCharging
  /\ totalEnergyGenerated' = h.totalEnergyGenerated
  /\ fanSpeed' = h.fanSpeed
  /\ mode' = h.mode
  /\ selectedMode' = h.selectedMode
  /\ faultCondition' = h.faultCondition
  /\ screenActive' = h.screenActive
  /\ configMode' = h.configMode
  /\ displayOption' = h.displayOption
  /\ screenBrightness' = h.screenBrightness
  /\ bootupPhase' = h.bootupPhase
  /\ showActivatePrompt' = h.showActivatePrompt
  /\ audioSrc' = AudioFiles
  /\ humVolume' = 0
  /\ fanVolume' = 0

\* The cleanup of the simulation effect clears the interval of the instance
\* that is unmounted; its timeouts stay pending.  The effect of the new
\* instance sets its own interval.
MountInterval(q, m) ==
  InsertTimer(SelectSeq(q, NotInterval),
              [cb |-> "interval", rem |-> IntervalPeriod, arg |-> 0,
               inst |-> m.inverter])

\* The parent unmounts the inverter and mounts it anew with the same props.
RemountInverter ==
  /\ clicks < budget.clicks
  /\ clicks' = clicks + 1
  /\ mounts' = [mounts EXCEPT !.inverter = @ + 1]
  /\ mounted' = props
  /\ UNCHANGED budget
  /\ NewInverter(InitialHooks(props, inverterOn))
  /\ timers' = MountInterval(timers, mounts')
  /\ lastEvent' = Event("remountInverter")
  /\ UNCHANGED <<hostVars, props, activationClicks, ticks, waits, solarVars,
                 monitorVars>>
  /\ closure' = Deps'

\* The diagram is unmounted and mounted anew, and the inverter with it.
RemountDiagram ==
  /\ clicks < budget.clicks
  /\ clicks' = clicks + 1
  /\ mounts' = [mounts EXCEPT !.diagram = @ + 1, !.inverter = @ + 1]
  /\ mounted' = HostProps(props, FALSE)
  /\ UNCHANGED budget
  /\ isActive' = FALSE
  /\ isAnimating' = FALSE
  /\ RenderDiagram
  /\ props' = HostProps(props, FALSE)
  /\ NewInverter(InitialHooks(props', FALSE))
  /\ closure' = Deps'
  /\ timers' = MountInterval(timers, mounts')
  /\ activationClicks' = 0
  /\ lastEvent' = Event("remountDiagram")
  /\ UNCHANGED <<ticks, waits, solarVars, monitorVars>>

\* A timeout of an instance that is no longer mounted comes due.
StaleTimeout ==
  /\ timers # <<>>
  /\ ~Live(Head(timers))
  /\ Rendered \/ Head(timers).rem = 0
  /\ timers' = Elapse(timers)
  /\ lastEvent' = Event("staleTimeout")
  /\ UNCHANGED <<hostVars, invVars, mounts, mounted, budget, clicks, activationClicks, ticks,
                 waits, solarVars, monitorVars>>

\* ------------------------------------------------------ StaticSolarPanelNode
\* Mount-time props of the panel; the first is the parameter list's defaults
\* with onPanelChange given.
DefaultSolarProps ==
  [panelOn |-> TRUE, sunIntensity |-> 70 * SScale, efficiency |-> 21,
   temperature |-> 45, tiltAngle |-> 30, orientation |-> "south",
   onPanelChange |-> TRUE]

SolarMountProps ==
  {DefaultSolarProps,
   [DefaultSolarProps EXCEPT !.onPanelChange = FALSE],
   [DefaultSolarProps EXCEPT !.panelOn = FALSE, !.sunIntensity = 150 * SScale,
                             !.tiltAngle = 120, !.efficiency = 100,
                             !.temperature = 20]}

Orientations == {"south", "east", "west", "north"}

\* The values changeTilt is called with: the slider's 0..90, and values on
\* either side.
TiltInputs == (0 - 5)..95
Hours == 0..23

\* Math.sin((k / 12) * Math.PI) * 100 in 1/SScale, k an integer, rounded
\* down (Math.sin(Math.PI / 6) is 0.49999999999999994).
SinQuarter == <<0, 25881904, 49999999, 70710678, 86602540, 96592582, 100000000>>

SinTwelfths(k) ==
  LET m == k % 24
  IN IF m <= 6 THEN SinQuarter[m + 1]
     ELSE IF m <= 12 THEN SinQuarter[12 - m + 1]
     ELSE IF m <= 18 THEN 0 - SinQuarter[m - 12 + 1]
     ELSE 0 - SinQuarter[24 - m + 1]

Clamp(lo, hi, x) == Max(lo, Min(hi, x))

\* floor(x * n / d), computed without leaving 32 bits
MulDiv(x, n, d) == (x \div d) * n + ((x % d) * n) \div d

Abs(x) == IF x < 0 THEN 0 - x ELSE x

\* weather factor, in tenths
WeatherFactor(w) ==
  IF w = "cloudy" THEN 6 ELSE IF w = "rainy" THEN 3 ELSE IF w = "night" THEN 0 ELSE 10

\* orientationFactor, in tenths
OrientationFactor(o, hour) ==
  IF o = "east" /\ hour < 12 THEN 9
  ELSE IF o = "east" /\ hour >= 12 THEN 7
  ELSE IF o = "west" /\ hour < 12 THEN 7
  ELSE IF o = "west" /\ hour >= 12 THEN 9
  ELSE IF o = "north" THEN 6
  ELSE 10

\* x * n / (100 * SScale), n in 1/SScale percent, in two halves of n
Scaled(x, n) ==
  MulDiv(x, n \div 10000, 10000) + MulDiv(x, n % 10000, 10000) \div 10000

\* maxPower * sunFactor * orientationFactor * tiltFactor * tempFactor *
\* (efficiency / 100), in millionths of a Watt.  The factors are applied in
\* the order of the source, each product rounded down to a millionth.
CalculatedPower(sun, hour, w, o, tilt, temp, eff) ==
  LET x0 == 350 * 1000000
      x1 == Scaled(x0, sun)
      x2 == Scaled(x1, Max(0, SinTwelfths(hour - 6)))
      x3 == MulDiv(x2, WeatherFactor(w), 10)
      x4 == MulDiv(x3, OrientationFactor(o, hour), 10)
      x5 == MulDiv(x4, 90 - Abs(tilt - 35), 90)
      x6 == MulDiv(x5, 1000 - Max(0, 4 * (temp - 25)), 1000)
  IN MulDiv(x6, eff, 100)

\* How far, in millionths, the product computed here may lie from the
\* floating-point product of the source: seven factors, each rounded down.
RoundingError == 10

\* Math.round of the floating-point product whose value in millionths is x,
\* give or take RoundingError.  Where the product is half an integer (the
\* sines of the hours make it so: sin(pi/12) * sin(5 pi/12) is 1/4), the last
\* bits of the floating-point product decide which neighbour it is, and
\* either is an outcome here.
Round(x) == {(x + 500000 - RoundingError) \div 1000000,
             (x + 500000 + RoundingError) \div 1000000}

\* Fault model: the panel's on/off state not looked at.
PowerOutputAlwaysOn(on, sun, hour, w, o, tilt, temp, eff) ==
  Round(CalculatedPower(sun, hour, w, o, tilt, temp, eff))

\* The values the power effect may give setOutputPower.
PowerOutput(on, sun, hour, w, o, tilt, temp, eff) ==
  IF ~on THEN {0} ELSE Round(CalculatedPower(sun, hour, w, o, tilt, temp, eff))

\* A handler of the panel: its state updates wait for the re-render.
SolarOp(kind, arg) ==
  /\ ops < MaxOps
  /\ ops' = ops + 1
  /\ lastOp' = [kind |-> kind, arg |-> arg]
  /\ renderPending' = TRUE
  /\ UNCHANGED <<solarProps, outputPower, hostVars, invVars, histVars, mounts, mounted, budget,
                 monitorVars>>

\* togglePanel, the closure of the last render: the state setter is given an
\* updater, the callback is given the negation of the captured panelOn.
\* React commits the re-render of a click after its handler has returned;
\* clicks dispatched before that commit (two click() calls of one task, a
\* batch of events) run the same closure.
togglePanel ==
  /\ SolarOp("togglePanel", 0)
  /\ panelOn' = ~panelOn
  /\ panelChanges' = IF solarProps.onPanelChange
                     THEN Append(panelChanges, ~closurePanelOn)
                     ELSE panelChanges
  /\ panelStates' = Append(panelStates, panelOn')
  /\ UNCHANGED <<closurePanelOn, sunIntensity, tiltAngle, timeOfDay, weather,
                 orientation, usedControls>>

\* Re-render after a state update: useCallback makes a new togglePanel, and
\* the power effect runs on the state of this render.
RenderPanel ==
  /\ renderPending
  /\ renderPending' = FALSE
  /\ closurePanelOn' = panelOn
  /\ outputPower' \in PowerOutput(panelOn, sunIntensity, timeOfDay, weather,
                                   orientation, tiltAngle, solarProps.temperature,
                                   solarProps.efficiency)
  /\ lastOp' = [kind |-> "render", arg |-> 0]
  /\ UNCHANGED <<solarProps, panelOn, sunIntensity, tiltAngle, timeOfDay, weather,
                 orientation, panelChanges, panelStates, usedControls, ops>>
  /\ UNCHANGED <<hostVars, invVars, histVars, mounts, mounted, budget, monitorVars>>

\* Values of Math.random() below, between and above the two thresholds of
\* the weather, 0.5 and 0.7.
WeatherSamples == {0, 600, 999}

WeatherAt(newTime, r) ==
  IF newTime < 6 \/ newTime > 18 THEN "night"
  ELSE IF newTime > 10 /\ newTime < 16
       THEN (IF r > 700 THEN "cloudy" ELSE "sunny")
       ELSE (IF r > 500 THEN "cloudy" ELSE "sunny")

SunIntensityAt(newTime) == Clamp(0, 100 * SScale, SinTwelfths(newTime - 6))

changeTimeOfDay ==
  \E newTime \in Hours, r \in WeatherSamples :
    /\ SolarOp("changeTimeOfDay", newTime)
    /\ timeOfDay' = newTime
    /\ weather' = WeatherAt(newTime, r)
    /\ sunIntensity' = SunIntensityAt(newTime)
    /\ usedControls' = usedControls \cup {"time"}
    /\ UNCHANGED <<panelOn, closurePanelOn, tiltAngle, orientation, panelChanges,
                   panelStates>>

\* Fault model: the upper clamp left out.
TiltClampLow(newTilt) == Max(0, newTilt)

\* Math.max(0, Math.min(90, newTilt))

TiltClamp(newTilt) == Max(0, Min(90, newTilt))

changeTilt ==
  \E newTilt \in TiltInputs :
    /\ SolarOp("changeTilt", newTilt)
    /\ tiltAngle' = TiltClamp(newTilt)
    /\ usedControls' = usedControls \cup {"tilt"}
    /\ UNCHANGED <<panelOn, closurePanelOn, sunIntensity, timeOfDay, weather,
                   orientation, panelChanges, panelStates>>

\* The panel is unmounted and mounted anew with the same props; the power
\* effect runs on the first render.
RemountPanel ==
  /\ ops < MaxOps
  /\ ops' = ops + 1
  /\ mounts' = [mounts EXCEPT !.panel = @ + 1]
  /\ UNCHANGED <<mounted, budget>>
  /\ panelOn' = solarProps.panelOn
  /\ closurePanelOn' = solarProps.panelOn
  /\ sunIntensity' = solarProps.sunIntensity
  /\ tiltAngle' = solarProps.tiltAngle
  /\ timeOfDay' = 12
  /\ weather' = "sunny"
  /\ orientation' = solarProps.orientation
  /\ outputPower' \in PowerOutput(solarProps.panelOn, solarProps.sunIntensity, 12,
                                   "sunny", solarProps.orientation,
                                   solarProps.tiltAngle, solarProps.temperature,
                                   solarProps.efficiency)
  /\ renderPending' = FALSE
  /\ panelChanges' = <<>>
  /\ panelStates' = <<>>
  /\ usedControls' = {}
  /\ lastOp' = [kind |-> "remount", arg |-> 0]
  /\ UNCHANGED <<solarProps, hostVars, invVars, histVars, monitorVars>>

\* The orientation select: setOrientation(e.target.value).
changeOrientation ==
  \E o \in Orientations :
    /\ o # orientation
    /\ SolarOp("setOrientation", 0)
    /\ orientation' = o
    /\ UNCHANGED <<panelOn, closurePanelOn, sunIntensity, tiltAngle, timeOfDay,
                   weather, panelChanges, panelStates, usedControls>>

\* --------------------------------------------------------- StaticMonitorNode
InitialChartData == <<50, 60, 55, 65, 70, 65, 75>>

\* Fault model: a range of 31 values.
ChartValueWide(r) == (r * 31) \div 1000 + 50

\* Math.floor(Math.random() * 30) + 50
ChartValue(r) == (r * 30) \div 1000 + 50

\* dataInterval, running while the monitorOn prop is true.
DataTick ==
  /\ monitorOn
  /\ dataTicks < MaxDataTicks
  /\ \E r \in Thousandths :
       chartData' = Tail(chartData) \o <<ChartValue(r)>>
  /\ dataTicks' = dataTicks + 1
  /\ lastData' = chartData
  /\ UNCHANGED <<monitorOn, hostVars, invVars, histVars, mounts, mounted, budget, solarVars>>

\* The parent renders the monitor with the other value of monitorOn.
MonitorPropChange ==
  /\ monitorOn' = ~monitorOn
  /\ UNCHANGED <<chartData, dataTicks, lastData, hostVars, invVars, histVars,
                 mounts, mounted, budget, solarVars>>

\* The monitor is unmounted and mounted anew: the cleanup of its effect clears
\* both intervals, the effect of the new instance sets them while monitorOn.
RemountMonitor ==
  /\ mounts' = [mounts EXCEPT !.monitor = @ + 1]
  /\ UNCHANGED <<mounted, budget>>
  /\ mounts.monitor < MaxDataTicks
  /\ chartData' = InitialChartData
  /\ lastData' = <<>>
  /\ UNCHANGED <<monitorOn, dataTicks, hostVars, invVars, histVars, solarVars>>

\* ------------------------------------------------------------ initial states
MountInverter(p) ==
  /\ props = p
  /\ gridConnected = p.gridConnected
  /\ solarConnected = p.solarConnected
  /\ batteryConnected = p.batteryConnected
  /\ temperature = p.temperature
  /\ loadPercentage = p.loadPercentage
  /\ inputVoltage = p.inputVoltage
  /\ inputFrequency = 0
  /\ outputFrequency = (IF p.frequency = 0 THEN 50 * FScale ELSE p.frequency * FScale)
  /\ batteryLevel = p.batteryLevel
  /\ batteryCharging = p.batteryCharging
  /\ totalEnergyGenerated = p.totalEnergyGenerated
  /\ fanSpeed = p.fanSpeed
  /\ mode = p.mode
  /\ selectedMode = ModeIndex(p.mode)
  /\ faultCondition = FALSE
  /\ screenActive = FALSE
  /\ configMode = FALSE
  /\ displayOption = 0
  /\ screenBrightness = 10
  /\ bootupPhase = 0
  /\ showActivatePrompt = ~inverterOn
  /\ audioSrc = AudioFiles
  /\ humVolume = 0
  /\ fanVolume = 0

MountDiagram ==
  /\ isActive = FALSE
  /\ isAnimating = FALSE
  /\ inverterOn = isActive
  /\ switchOn = isActive
  /\ bulbOn = isActive
  /\ illuminated = isActive
  /\ connectionActive = [i \in 1..3 |-> isActive]

NoEvent ==
  [kind |-> "mount", on |-> FALSE, screen |-> FALSE, load |-> 0, temp |-> 0,
   target |-> 0, battery |-> 0, fan |-> 0]

FirstMount == [diagram |-> 0, inverter |-> 0, panel |-> 0, monitor |-> 0]

\* How far a behaviour is followed: so many clicks, so many callbacks of
\* the simulation interval (the behaviour ends where the next one is due), so
\* many waits, and the values of Math.random() in draws.
Budget == [clicks |-> MaxClicks, ticks |-> MaxTicks, waits |-> MaxWaits,
           draws |-> Draws]

\* The readings of the simulation.
HeatBudget == [clicks |-> MaxHeatClicks, ticks |-> MaxHeatTicks,
               waits |-> MaxWaits, draws |-> Draws]

\* The buttons.
PressBudget == [clicks |-> MaxPresses, ticks |-> MaxPressTicks,
                waits |-> MaxWaits, draws |-> Draws]

\* Mounting anew.
RemountBudget == [clicks |-> MaxRemountClicks, ticks |-> MaxPressTicks,
                  waits |-> MaxWaits, draws |-> Draws]

\* The bootup of the screen and the animation of the diagram.
BootBudget == [clicks |-> MaxBootClicks, ticks |-> MaxBootTicks,
               waits |-> MaxWaits, draws |-> CalmDraws]

\* The fault.
FaultBudget == [clicks |-> MaxFaultClicks, ticks |-> MaxFaultTicks,
                waits |-> MaxWaits, draws |-> FaultDraws]

InitWithin(P, b) ==
  /\ MountDiagram
  /\ \E p \in P : MountInverter(p)
  /\ mounted = props
  /\ mounts = FirstMount
  /\ budget = b
  /\ closure = Deps
  /\ timers = <<Timer("interval", IntervalPeriod, 0)>>
  /\ clicks = 0
  /\ activationClicks = 0
  /\ ticks = 0
  /\ waits = 0
  /\ lastEvent = NoEvent

InitDiagram(P) == InitWithin(P, Budget)

MountSolar(p) ==
  /\ solarProps = p
  /\ panelOn = p.panelOn
  /\ closurePanelOn = p.panelOn
  /\ sunIntensity = p.sunIntensity
  /\ tiltAngle = p.tiltAngle
  /\ timeOfDay = 12
  /\ weather = "sunny"
  /\ orientation = p.orientation
  \* the power effect has run on the first render
  /\ outputPower \in PowerOutput(p.panelOn, p.sunIntensity, 12, "sunny",
                                  p.orientation, p.tiltAngle, p.temperature,
                                  p.efficiency)
  /\ renderPending = FALSE
  /\ panelChanges = <<>>
  /\ panelStates = <<>>
  /\ usedControls = {}
  /\ ops = 0
  /\ lastOp = [kind |-> "mount", arg |-> 0]

InitSolarPanel(P) == \E p \in P : MountSolar(p)

InitMonitor(M) ==
  /\ monitorOn \in M
  /\ chartData = InitialChartData
  /\ dataTicks = 0
  /\ lastData = <<>>

\* ------------------------------------------------------------ specifications
\* EnergyFlowDiagram with its StaticInverterNode.
Init ==
  /\ InitWithin(MountProps, Budget)
  /\ InitSolarPanel({DefaultSolarProps})
  /\ InitMonitor({FALSE})

Next ==
  \/ toggleActivation
  \/ EnterClick
  \/ PromptClick
  \/ ConfClick
  \/ Select1Click
  \/ Select2Click
  \/ BrightnessTimeout
  \/ BootupTimeout
  \/ LoadTimeout
  \/ FanTimeout
  \/ OutputFrequencyTimeout
  \/ FaultResetTimeout
  \/ AnimationResetTimeout
  \/ CooldownTick
  \/ HeatupTick
  \/ Settle
  \/ Pass

Spec == Init /\ [][Next]_vars

\* The readings of the simulation, for as long as no reset timeout is due.
InitHeat ==
  /\ InitWithin(MountProps, HeatBudget)
  /\ InitSolarPanel({DefaultSolarProps})
  /\ InitMonitor({FALSE})

NextHeat ==
  \/ toggleActivation
  \/ EnterClick
  \/ PromptClick
  \/ ConfClick
  \/ Select1Click
  \/ Select2Click
  \/ BrightnessTimeout
  \/ BootupTimeout
  \/ LoadTimeout
  \/ FanTimeout
  \/ OutputFrequencyTimeout
  \/ CooldownTick
  \/ HeatupTick
  \/ Settle
  \/ Pass

SpecHeat == InitHeat /\ [][NextHeat]_vars

\* The readings again, of an inverter mounted with props inside and outside
\* the ranges of a percentage.
InitBattery ==
  /\ InitWithin(AnyProps, HeatBudget)
  /\ InitSolarPanel({DefaultSolarProps})
  /\ InitMonitor({FALSE})

SpecBattery == InitBattery /\ [][NextHeat]_vars

\* Sequences of clicks between the callbacks of the simulation: a behaviour
\* is followed for a few clicks that come at any time, or for more clicks
\* that come with a callback of a timer or straight after another click.
ClickBudget == [clicks |-> MaxPresses, ticks |-> MaxPressTicks, waits |-> 0,
                draws |-> Draws]

InitClicks ==
  /\ \E b \in {HeatBudget, ClickBudget} :
       InitWithin({DefaultProps, HotProps, LowBatteryProps}, b)
  /\ InitSolarPanel({DefaultSolarProps})
  /\ InitMonitor({FALSE})

SpecClicks == InitClicks /\ [][NextHeat]_vars

\* The buttons: clicks that come with a callback of a timer or straight
\* after another click, for as long as no reset timeout is due.
InitPress ==
  /\ InitWithin(MountProps, PressBudget)
  /\ InitSolarPanel({DefaultSolarProps})
  /\ InitMonitor({FALSE})

NextPress ==
  \/ toggleActivation
  \/ EnterClick
  \/ PromptClick
  \/ ConfClick
  \/ Select1Click
  \/ Select2Click
  \/ BrightnessTimeout
  \/ BootupTimeout
  \/ LoadTimeout
  \/ FanTimeout
  \/ OutputFrequencyTimeout
  \/ CooldownTick
  \/ HeatupTick
  \/ Settle

SpecPress == InitPress /\ [][NextPress]_vars

\* The screen of the inverter and the animation of the diagram: the buttons
\* that switch them.
InitBoot ==
  /\ InitWithin({DefaultProps}, BootBudget)
  /\ InitSolarPanel({DefaultSolarProps})
  /\ InitMonitor({FALSE})

NextBoot ==
  \/ toggleActivation
  \/ EnterClick
  \/ ConfClick
  \/ BrightnessTimeout
  \/ BootupTimeout
  \/ LoadTimeout
  \/ FanTimeout
  \/ OutputFrequencyTimeout
  \/ AnimationResetTimeout
  \/ CooldownTick
  \/ HeatupTick
  \/ Settle

SpecBoot == InitBoot /\ [][NextBoot]_vars

\* The fault: the switch of the diagram, which turns the inverterOn prop,
\* the simulation and the reset timeouts.  The inverter is mounted as the
\* diagram mounts it, or on a low battery or in pv mode, where the
\* low-battery fault can be raised as well.
InitFault ==
  /\ InitWithin({DefaultProps, LowBatteryProps, PvProps}, FaultBudget)
  /\ InitSolarPanel({DefaultSolarProps})
  /\ InitMonitor({FALSE})

NextFault ==
  \/ toggleActivation
  \/ FaultResetTimeout
  \/ AnimationResetTimeout
  \/ CooldownTick
  \/ HeatupTick
  \/ Settle

\* A callback of a timer, or the render it has put off.  The browser runs
\* every callback that is due.
TimerStep ==
  \/ FaultResetTimeout
  \/ AnimationResetTimeout
  \/ CooldownTick
  \/ HeatupTick
  \/ Settle

SpecFault == InitFault /\ [][NextFault]_vars /\ WF_vars(TimerStep)

\* The inverter with audio assets that fail to load.
InitAudio ==
  /\ InitWithin({DefaultProps, PvProps}, PressBudget)
  /\ InitSolarPanel({DefaultSolarProps})
  /\ InitMonitor({FALSE})

NextAudio ==
  \/ NextPress
  \/ AudioError

SpecAudio == InitAudio /\ [][NextAudio]_vars

\* The inverter and the diagram unmounted and mounted anew by the parent.
InitRemount ==
  /\ InitWithin({DefaultProps, PvProps}, RemountBudget)
  /\ InitSolarPanel({DefaultSolarProps})
  /\ InitMonitor({FALSE})

\* The widgets share no state.  A behaviour of this specification exercises
\* one of them and leaves the others as they were mounted.
InverterIdle == lastEvent.kind = "mount"
PanelIdle == lastOp.kind = "mount"
MonitorIdle == dataTicks = 0 /\ mounts.monitor = 0 /\ ~monitorOn
PanelTurn == InverterIdle /\ MonitorIdle /\ ops < MaxRemountOps
MonitorTurn == InverterIdle /\ PanelIdle /\ dataTicks < MaxRemountOps

NextRemount ==
  \/ PanelIdle /\ MonitorIdle /\ toggleActivation
  \/ PanelIdle /\ MonitorIdle /\ EnterClick
  \/ PanelIdle /\ MonitorIdle /\ PromptClick
  \/ PanelIdle /\ MonitorIdle /\ ConfClick
  \/ PanelIdle /\ MonitorIdle /\ Select1Click
  \/ PanelIdle /\ MonitorIdle /\ Select2Click
  \/ PanelIdle /\ MonitorIdle /\ BrightnessTimeout
  \/ PanelIdle /\ MonitorIdle /\ BootupTimeout
  \/ PanelIdle /\ MonitorIdle /\ LoadTimeout
  \/ PanelIdle /\ MonitorIdle /\ FanTimeout
  \/ PanelIdle /\ MonitorIdle /\ OutputFrequencyTimeout
  \/ PanelIdle /\ MonitorIdle /\ CooldownTick
  \/ PanelIdle /\ MonitorIdle /\ HeatupTick
  \/ PanelIdle /\ MonitorIdle /\ Settle
  \/ PanelIdle /\ MonitorIdle /\ RemountInverter
  \/ PanelIdle /\ MonitorIdle /\ RemountDiagram
  \/ PanelIdle /\ MonitorIdle /\ StaleTimeout
  \/ PanelTurn /\ togglePanel
  \/ InverterIdle /\ MonitorIdle /\ RenderPanel
  \/ PanelTurn /\ changeTimeOfDay
  \/ PanelTurn /\ changeTilt
  \/ InverterIdle /\ MonitorIdle /\ RemountPanel
  \/ InverterIdle /\ PanelIdle /\ MonitorPropChange
  \/ MonitorTurn /\ DataTick
  \/ InverterIdle /\ PanelIdle /\ RemountMonitor

SpecRemount == InitRemount /\ [][NextRemount]_vars

\* StaticSolarPanelNode.
InitSolar ==
  /\ InitDiagram({DefaultProps})
  /\ InitSolarPanel(SolarMountProps)
  /\ InitMonitor({FALSE})

NextSolar ==
  \/ togglePanel
  \/ RenderPanel
  \/ changeTimeOfDay
  \/ changeTilt
  \/ changeOrientation

SpecSolar == InitSolar /\ [][NextSolar]_vars

\* StaticMonitorNode.
InitMonitorNode ==
  /\ InitDiagram({DefaultProps})
  /\ InitSolarPanel({DefaultSolarProps})
  /\ InitMonitor(BOOLEAN)

NextMonitor ==
  \/ DataTick
  \/ MonitorPropChange

SpecMonitor == InitMonitorNode /\ [][NextMonitor]_vars


\* ==================================================================== claims

\* C1: in EnergyFlowDiagram isActive is TRUE exactly when the number of clicks
\* on the Activate/Deactivate button so far is odd, and the inverter, the
\* switch, the bulb, the word node and the three connection lines all show
\* the value of isActive.
C1_ActiveIsClickParity ==
  /\ isActive = (activationClicks % 2 = 1)
  /\ inverterOn = isActive
  /\ switchOn = isActive
  /\ bulbOn = isActive
  /\ illuminated = isActive
  /\ \A i \in 1..3 : connectionActive[i] = isActive

C1_Witness ==
  /\ activationClicks = 2
  /\ lastEvent.kind = "toggleActivation"
  /\ lastEvent.on
  /\ ~bulbOn

\* C2: a click on the ENTER button or on the Activate prompt leaves inverterOn
\* the negation of the value it had before the click.
C2_ClickNegatesInverterOn ==
  lastEvent.kind \in {"ENTER", "Activate"} => inverterOn = ~lastEvent.on

\* C3: every togglePanel click negates panelOn, and onPanelChange, when
\* provided, has been called once per click with the value panelOn held after
\* that click, whether or not a re-render came between two clicks.
C3_PanelChangeReportsPanelOn ==
  /\ panelOn = (IF Len(panelStates) % 2 = 0
                THEN solarProps.panelOn ELSE ~solarProps.panelOn)
  /\ solarProps.onPanelChange => panelChanges = panelStates
  /\ ~solarProps.onPanelChange => panelChanges = <<>>

\* C4: with the batteryLevel prop within [0,100], batteryLevel is within
\* [0,100] in every reachable state.
C4_BatteryLevelInRange ==
  (props.batteryLevel >= 0 /\ props.batteryLevel <= 100 * BScale)
    => (batteryLevel >= 0 /\ batteryLevel <= 100 * BScale)

C4_Witness ==
  /\ lastEvent.kind = "heatupTick"
  /\ batteryConnected
  /\ lastEvent.load > 0
  /\ lastEvent.battery < DischargeRate(lastEvent.load)
  /\ batteryLevel = 0

\* The temperature after a tick of the heat-up interval lies between the
\* temperature before it and the tick's target, and the target is
\* 35 + 30 * load / 100 give or take one degree.
TowardsTarget ==
  /\ lastEvent.target >=
       35 * TScale + lastEvent.load * (3 * (TScale \div 10)) - TScale
  /\ lastEvent.target <=
       35 * TScale + lastEvent.load * (3 * (TScale \div 10)) + TScale
  /\ \/ lastEvent.temp <= temperature /\ temperature <= lastEvent.target
     \/ lastEvent.target <= temperature /\ temperature <= lastEvent.temp

\* The temperature is within [min(T0, 34), max(T0, 66)] for the temperature
\* T0 the inverter was mounted with.
WithinSpan ==
  /\ temperature >= Min(mounted.temperature, 34 * TScale)
  /\ temperature <= Max(mounted.temperature, 66 * TScale)

\* C5 as stated: after every tick of the heat-up interval the temperature
\* lies between the temperature before the tick and the tick's target, and
\* with a load within [0,100] the temperature is always within
\* [min(T0, 34), max(T0, 66)].
C5_TemperatureTowardsTarget ==
  /\ lastEvent.kind = "heatupTick" => TowardsTarget
  /\ (mounted.loadPercentage >= 0 /\ mounted.loadPercentage <= 100)
       => WithinSpan

\* C5, amended: the same for an inverter mounted with a fanSpeed prop and a
\* loadPercentage prop that are not negative; the temperature is always
\* within [min(T0, 34), max(T0, 66)] when the load is within [0,100] and
\* the fanSpeed prop is not negative.
C5_TemperatureTowardsTargetInRange ==
  /\ (lastEvent.kind = "heatupTick" /\ mounted.fanSpeed >= 0
        /\ mounted.loadPercentage >= 0) => TowardsTarget
  /\ (mounted.fanSpeed >= 0 /\ mounted.loadPercentage >= 0
        /\ mounted.loadPercentage <= 100) => WithinSpan

\* The second tick of an inverter mounted hot with its fan running has
\* cooled it towards the target; it has not reached it.
C5_Witness ==
  /\ lastEvent.kind = "heatupTick"
  /\ mounted.fanSpeed > 0
  /\ mounted.loadPercentage <= 100
  /\ lastEvent.target < temperature
  /\ temperature < lastEvent.temp
  /\ ticks >= 2

\* C6: after a tick of the cooldown interval the temperature is
\* max(prev - (prev - 35) / 10, 35): at least 35, and not above the previous
\* temperature when that was at least 35.
C6_CooldownFloor ==
  lastEvent.kind = "cooldownTick" =>
    /\ temperature >= 35 * TScale
    /\ lastEvent.temp >= 35 * TScale => temperature <= lastEvent.temp
    /\ temperature =
         (IF lastEvent.temp - ((lastEvent.temp - 35 * TScale) \div 10) > 35 * TScale
          THEN lastEvent.temp - ((lastEvent.temp - 35 * TScale) \div 10)
          ELSE 35 * TScale)

C6_Witness ==
  /\ lastEvent.kind = "cooldownTick"
  /\ lastEvent.temp < 35 * TScale
  /\ temperature = 35 * TScale

\* C7: after a tick of the heat-up interval fanSpeed is in the band of the
\* temperature the tick read (100 above 65, 80..85 above 55, 60..65 above 45,
\* 40..45 above 40, else 20..25); with the fanSpeed prop within [0,100]
\* fanSpeed is always within [0,100]; a lower temperature band has no higher
\* fan speed.
FanBand(temp) ==
  IF temp > 65 * TScale THEN 100..100
  ELSE IF temp > 55 * TScale THEN 80..85
  ELSE IF temp > 45 * TScale THEN 60..65
  ELSE IF temp > 40 * TScale THEN 40..45
  ELSE 20..25

BandTemperatures == {30 * TScale, 40 * TScale, 45 * TScale, 50 * TScale,
                     55 * TScale, 60 * TScale, 65 * TScale, 70 * TScale}

C7_FanSpeedInBand ==
  /\ lastEvent.kind = "heatupTick" =>
       /\ fanSpeed \in FanBand(lastEvent.temp)
       /\ \A t \in BandTemperatures, r \in RandomSamples :
            FanBand(t) # FanBand(lastEvent.temp) =>
              (t < lastEvent.temp <=> FanCurve(t, Jitter(r)) < fanSpeed)
  /\ (props.fanSpeed >= 0 /\ props.fanSpeed <= 100) =>
       (fanSpeed >= 0 /\ fanSpeed <= 100)

C7_Witness ==
  /\ lastEvent.kind = "heatupTick"
  /\ lastEvent.temp > 55 * TScale
  /\ lastEvent.temp <= 65 * TScale
  /\ fanSpeed = 85

\* C8: with the loadPercentage prop within [0,100], loadPercentage is always
\* within [0,100]; a press of the second SELECT button with the screen active
\* leaves it 0 when it was above 90 before the press, else 10 higher, at
\* most 100.
C8_LoadInRange ==
  /\ (props.loadPercentage >= 0 /\ props.loadPercentage <= 100) =>
       (loadPercentage >= 0 /\ loadPercentage <= 100)
  /\ (lastEvent.kind = "SELECT2" /\ lastEvent.screen) =>
       loadPercentage = (IF lastEvent.load > 90 THEN 0
                         ELSE IF lastEvent.load + 10 > 100 THEN 100
                         ELSE lastEvent.load + 10)

\* C9: chartData holds 7 values, each within [50,79]; a data tick drops the
\* oldest value, keeps the other six in order and appends one value.
C9_ChartWindow ==
  /\ Len(chartData) = 7
  /\ \A i \in 1..7 : chartData[i] >= 50 /\ chartData[i] <= 79
  /\ lastData # <<>> => \A i \in 1..6 : chartData[i] = lastData[i + 1]

C9_Witness ==
  /\ dataTicks = MaxDataTicks
  /\ chartData[7] = 79
  /\ chartData[6] = 50
  /\ lastData[7] = 50

\* C10: after changeTilt(n) tiltAngle is n clamped to [0,90]; after
\* changeTimeOfDay(t), t in 0..23, sunIntensity is within [0,100]; once a
\* control has been used its value stays within these bounds.
C10_ControlsClamp ==
  /\ lastOp.kind = "changeTilt" =>
       tiltAngle = (IF lastOp.arg < 0 THEN 0
                    ELSE IF lastOp.arg > 90 THEN 90 ELSE lastOp.arg)
  /\ "tilt" \in usedControls => (tiltAngle >= 0 /\ tiltAngle <= 90)
  /\ "time" \in usedControls => (sunIntensity >= 0 /\ sunIntensity <= 100 * SScale)

\* A panel mounted with a tilt of 120: the time slider moved to an hour of
\* the night, then changeTilt called with 95.
C10_Witness ==
  /\ solarProps.tiltAngle = 120
  /\ lastOp.kind = "changeTilt"
  /\ lastOp.arg = 95
  /\ usedControls = {"tilt", "time"}
  /\ tiltAngle = 90
  /\ sunIntensity = 0

\* C11 (as stated): once the effects have run, outputPower is 0 whenever the
\* panel is off, the weather is night or timeOfDay is at most 6 or at least
\* 18; otherwise, with tiltAngle in [0,90], temperature at most 275 and
\* efficiency in [0,100], outputPower is within [0,350].
C11_OutputPowerBounded ==
  ~renderPending =>
    /\ (~panelOn \/ weather = "night" \/ timeOfDay <= 6 \/ timeOfDay >= 18)
         => outputPower = 0
    /\ (/\ tiltAngle >= 0 /\ tiltAngle <= 90
        /\ solarProps.temperature <= 275
        /\ solarProps.efficiency >= 0 /\ solarProps.efficiency <= 100)
         => (outputPower >= 0 /\ outputPower <= 350)

\* C11 (amended): the same, the bound [0,350] claimed only where sunIntensity
\* is within [0,100] as well.
C11_OutputPowerBoundedGivenSun ==
  ~renderPending =>
    /\ (~panelOn \/ weather = "night" \/ timeOfDay <= 6 \/ timeOfDay >= 18)
         => outputPower = 0
    /\ (/\ tiltAngle >= 0 /\ tiltAngle <= 90
        /\ solarProps.temperature <= 275
        /\ solarProps.efficiency >= 0 /\ solarProps.efficiency <= 100
        /\ sunIntensity >= 0 /\ sunIntensity <= 100 * SScale)
         => (outputPower >= 0 /\ outputPower <= 350)

\* The default panel at noon under a clear sky, tilted to 35 degrees:
\* 350 * 0.92 * 0.21 = 67.62 W.
C11_Witness ==
  /\ ~renderPending
  /\ lastOp.kind = "render"
  /\ panelOn
  /\ timeOfDay = 12 /\ weather = "sunny"
  /\ sunIntensity = 100 * SScale
  /\ tiltAngle = 35
  /\ outputPower = 68

\* The head of the queue belongs to an instance no longer mounted, and this
\* step runs it.
StaleFires ==
  /\ timers # <<>>
  /\ Head(timers).inst # mounts[Owner(Head(timers).cb)]
  /\ Len(timers') = Len(timers) - 1

\* The inverter's state as its props give it.
FreshInverter ==
  /\ ~screenActive /\ bootupPhase = 0 /\ ~faultCondition /\ ~configMode
  /\ displayOption = 0 /\ screenBrightness = 10
  /\ showActivatePrompt = ~inverterOn
  /\ mode = props.mode /\ modes[selectedMode + 1] = props.mode
  /\ gridConnected = props.gridConnected
  /\ solarConnected = props.solarConnected
  /\ batteryConnected = props.batteryConnected
  /\ temperature = props.temperature
  /\ loadPercentage = props.loadPercentage
  /\ inputVoltage = props.inputVoltage
  /\ inputFrequency = 0
  /\ outputFrequency = (IF props.frequency = 0 THEN 50 ELSE props.frequency) * FScale
  /\ batteryLevel = props.batteryLevel
  /\ batteryCharging = props.batteryCharging
  /\ totalEnergyGenerated = props.totalEnergyGenerated
  /\ fanSpeed = props.fanSpeed

\* C12: a widget mounted anew holds exactly the initial state derived from
\* its props (the inverter: screen inactive, bootupPhase 0, no fault,
\* configMode off, displayOption 0, readings, mode and connections as the
\* props give them; the panel: its props, noon, sunny; the monitor: the
\* initial chart), and a timeout of an instance no longer mounted, when it
\* comes due, changes no state of any mounted widget.
C12_RemountResets ==
  /\ [](/\ lastEvent.kind \in {"remountInverter", "remountDiagram"}
             => FreshInverter
        /\ lastEvent.kind = "remountDiagram" => (~isActive /\ ~isAnimating)
        /\ lastOp.kind = "remount" =>
             /\ panelOn = solarProps.panelOn
             /\ sunIntensity = solarProps.sunIntensity
             /\ tiltAngle = solarProps.tiltAngle
             /\ orientation = solarProps.orientation
             /\ timeOfDay = 12 /\ weather = "sunny"
        /\ (mounts.monitor > 0 /\ lastData = <<>>) =>
             chartData = <<50, 60, 55, 65, 70, 65, 75>>)
  /\ [][StaleFires =>
         UNCHANGED <<hostVars, invVars, solarVars, monitorVars>>]_vars

C12_Witness ==
  /\ lastEvent.kind = "staleTimeout"
  /\ mounts.inverter = 1
  /\ \E i \in 1..Len(timers) : timers[i].cb = "bootup" /\ timers[i].inst = 0
  /\ FreshInverter

\* An <audio> element reports a load error in this step.
AudioFails == clicks' = clicks + 1 /\ lastEvent'.kind \in Assets

\* C13: when one of the four audio assets fails to load, its element is given
\* the silent blob as source and, for the hum and the fan noise, the
\* corresponding volume is 0; the step changes nothing else of the inverter
\* (inverterOn, screen, bootupPhase, mode, connections, faultCondition,
\* readings, prompt), so no error shows.
C13_AudioErrorSilenced ==
  /\ [](lastEvent.kind \in Assets =>
          /\ audioSrc[lastEvent.kind] = "blob"
          /\ lastEvent.kind = "inverter-hum.mp3" => humVolume = 0
          /\ lastEvent.kind = "fan-noise.mp3" => fanVolume = 0)
  /\ [][AudioFails =>
         /\ UNCHANGED <<hostVars, props, connVars, readingVars, modeVars,
                        faultCondition, screenVars, showActivatePrompt>>
         /\ \A a \in Assets : a # lastEvent'.kind => audioSrc'[a] = audioSrc[a]]_vars

C13_Witness ==
  /\ lastEvent.kind = "fan-noise.mp3"
  /\ lastEvent.on
  /\ lastEvent.screen
  /\ audioSrc["fan-noise.mp3"] = "blob"
  /\ audioSrc["alarm.mp3"] = "file"
  /\ screenActive
  /\ fanVolume = 0

\* The click-driven values of the inverter.
ClickState ==
  [mode |-> mode, selectedMode |-> selectedMode, gridConnected |-> gridConnected,
   solarConnected |-> solarConnected, batteryConnected |-> batteryConnected,
   screenActive |-> screenActive, configMode |-> configMode,
   displayOption |-> displayOption, inputVoltage |-> inputVoltage,
   loadPercentage |-> loadPercentage]

\* What an event makes of the click-driven values, told from these values,
\* the load the handler's render saw, the inverterOn prop and the mount-time
\* props alone.
AfterEvent(c, seen, kind, on, arg) ==
  IF kind \in {"ENTER", "Activate"}
  THEN IF ~on
       THEN [c EXCEPT !.screenActive = TRUE,
                      !.gridConnected = (c.mode = "normal"),
                      !.solarConnected = (c.mode = "pv"),
                      !.batteryConnected = (c.mode # "normal" \/ @)]
       ELSE [c EXCEPT !.screenActive = FALSE, !.loadPercentage = 0]
  ELSE IF kind = "CONF"
  THEN [c EXCEPT !.screenActive = TRUE, !.configMode = ~@,
                 !.displayOption = IF c.configMode THEN (@ + 1) % 3 ELSE @]
  ELSE IF kind = "SELECT1"
  THEN IF c.screenActive
       THEN [c EXCEPT !.selectedMode = (@ + 1) % 3,
                      !.mode = modes[((c.selectedMode + 1) % 3) + 1],
                      !.gridConnected = (c.mode = "normal"),
                      !.solarConnected = (c.mode = "pv" \/ @),
                      !.batteryConnected = (c.mode = "battery" \/ @)]
       ELSE [c EXCEPT !.screenActive = TRUE]
  ELSE IF kind = "SELECT2"
  THEN IF c.screenActive
       THEN [c EXCEPT !.displayOption = (@ + 1) % 3,
                      !.inputVoltage = IF @ = 48 THEN 52 ELSE IF @ = 52 THEN 56 ELSE 48,
                      !.loadPercentage = IF seen > 90 THEN 0
                                         ELSE IF @ + 10 > 100 THEN 100 ELSE @ + 10]
       ELSE [c EXCEPT !.screenActive = TRUE]
  ELSE IF kind = "setLoadPercentage"
  THEN [c EXCEPT !.loadPercentage = arg]
  ELSE c

\* The values the pending power-on timeouts will give setLoadPercentage.
PendingLoads(q) ==
  {q[i].arg : i \in {j \in 1..Len(q) : q[j].cb = "setLoadPercentage"}}

BootStage(phase, brightness) ==
  IF phase = 0 /\ brightness = 1 THEN 1
  ELSE IF phase = 0 /\ brightness = 2 THEN 2
  ELSE IF phase = 1 /\ brightness = 3 THEN 3
  ELSE IF phase = 2 /\ brightness = 6 THEN 4
  ELSE IF phase = 3 /\ brightness = 10 THEN 5
  ELSE 0

\* C15: a step that activates the screen leaves bootupPhase 0 and
\* screenBrightness 0.1, and from then on, for as long as no power-off makes
\* the screen inactive, every step leaves the pair (bootupPhase,
\* screenBrightness) where it is in the bootup sequence or moves it to the
\* next place: the phase goes 0, 1, 2, 3 in that order and the brightness
\* 0.1, 0.2, 0.3, 0.6, 1.
C15_BootupInOrder ==
  [][/\ (~screenActive /\ screenActive') =>
          BootStage(bootupPhase', screenBrightness') = 1
     /\ (screenActive /\ screenActive') =>
          /\ BootStage(bootupPhase', screenBrightness') > 0
          /\ BootStage(bootupPhase', screenBrightness') \in
               {BootStage(bootupPhase, screenBrightness),
                BootStage(bootupPhase, screenBrightness) + 1}]_vars

\* What the power-off sequence of toggleInverter leaves: the screen off and
\* dark, no load, the fan stopped, no frequency.  Only that sequence sets
\* the brightness to 0.
PoweredOff ==
  /\ loadPercentage = 0
  /\ fanSpeed = 0
  /\ outputFrequency = 0
  /\ inputFrequency = 0
  /\ screenBrightness = 0
  /\ ~screenActive

\* C16: what the power-off sequence has set stays as it is through every
\* step that is not the press of a button, for as long as the inverterOn
\* prop is FALSE: loadPercentage, fanSpeed, outputFrequency, inputFrequency
\* and screenBrightness 0, screenActive FALSE.
C16_PowerOffStays ==
  [][(PoweredOff /\ ~inverterOn /\ clicks' = clicks) => PoweredOff']_vars

\* C17: in every reachable state where inverterOn is TRUE the screen is
\* active.  (activateScreen is called by click handlers only: no timeout, no
\* tick and no effect sets screenActive TRUE, so a screen that is inactive
\* stays inactive until the next click, and "becomes true without further
\* user input" adds no state to the ones where it is true already.)
C17_ScreenActiveWhenOn == inverterOn => screenActive

\* A click on ENTER or on the Activate prompt while inverterOn is FALSE:
\* toggleInverter runs its power-on sequence.
PowersOn ==
  /\ clicks' = clicks + 1
  /\ lastEvent'.kind \in {"ENTER", "Activate"}
  /\ ~inverterOn

\* C18: a power-on through ENTER or the Activate prompt leaves the
\* connections as the mode of that moment says: in pv mode solarConnected
\* and batteryConnected TRUE and gridConnected FALSE, in normal mode
\* gridConnected TRUE and solarConnected FALSE, in battery mode
\* batteryConnected TRUE and gridConnected and solarConnected FALSE.
C18_PowerOnConnections ==
  [][PowersOn =>
       /\ mode = "pv" => (solarConnected' /\ batteryConnected' /\ ~gridConnected')
       /\ mode = "normal" => (gridConnected' /\ ~solarConnected')
       /\ mode = "battery" =>
            (batteryConnected' /\ ~gridConnected' /\ ~solarConnected')]_vars

\* Mounted in normal mode with nothing connected, switched to pv with the
\* first SELECT button and powered on with ENTER: sun and battery, no grid.
C18_Witness ==
  /\ lastEvent.kind = "ENTER"
  /\ ~lastEvent.on
  /\ props.mode = "normal"
  /\ mode = "pv"
  /\ solarConnected /\ batteryConnected /\ ~gridConnected

\* A press of the first SELECT button in a render with the screen active.
SelectsMode ==
  /\ clicks' = clicks + 1
  /\ lastEvent'.kind = "SELECT1"
  /\ screenActive

\* C19: a press of the first SELECT button with the screen active leaves the
\* connections as the mode selected by the press says: solarConnected TRUE
\* and gridConnected FALSE if it is pv, gridConnected TRUE if it is normal,
\* batteryConnected TRUE and gridConnected FALSE if it is battery.
C19_SelectConnections ==
  [][SelectsMode =>
       /\ mode' = "pv" => (solarConnected' /\ ~gridConnected')
       /\ mode' = "normal" => gridConnected'
       /\ mode' = "battery" => (batteryConnected' /\ ~gridConnected')]_vars

\* The mode that follows m in the cycle normal -> pv -> battery -> normal.
ModeAfter(m) == IF m = "normal" THEN "pv" ELSE IF m = "pv" THEN "battery" ELSE "normal"

\* C20: selectedMode is the index of mode (0 normal, 1 pv, 2 battery) in
\* every reachable state; a press of the first SELECT button with the screen
\* active (changeMode) moves the mode one place on in the cycle normal, pv,
\* battery, normal; and no other step changes the mode: no tick, no timeout,
\* no power toggle, no click on Activate/Deactivate, with which the diagram
\* changes the mode prop.
C20_ModeCycle ==
  /\ [](selectedMode = ModeIndex(mode))
  /\ [][/\ SelectsMode => mode' = ModeAfter(mode)
        /\ mode' # mode => SelectsMode]_vars

\* Mounted in battery mode; Activate has made the mode prop pv; the first
\* SELECT button, pressed with the screen active, has moved the mode on to
\* normal.
C20_Witness ==
  /\ lastEvent.kind = "SELECT1"
  /\ lastEvent.screen
  /\ isActive
  /\ props.mode = "pv"
  /\ mode = "normal"
  /\ selectedMode = 0

\* A timeout that will set faultCondition FALSE is pending.
ResetPending ==
  \E i \in 1..Len(timers) :
    /\ timers[i].cb = "resetFault"
    /\ Live(timers[i])
    /\ timers[i].rem <= FaultResetLow

\* The callbacks of the interval that run before a timeout of 5 seconds
\* set by one of them comes due.
TicksToReset == FaultResetLow \div IntervalPeriod - 1

\* C21: whenever faultCondition is TRUE, a timeout that resets it is pending
\* and due within 5 seconds, whatever has been clicked since the fault was
\* raised, a power-off included, and the fault does go away (in a behaviour
\* that is followed for the ticks these 5 seconds hold); and faultCondition
\* becomes TRUE only in a tick of the heatup interval, which runs while
\* inverterOn is TRUE.
C21_FaultTransient ==
  /\ [](faultCondition => ResetPending)
  /\ [][(~faultCondition /\ faultCondition') =>
          (inverterOn /\ lastEvent'.kind = "heatupTick")]_vars
  /\ ((faultCondition /\ ticks + TicksToReset <= budget.ticks)
        ~> ~faultCondition)

\* The diagram has mounted the inverter as it does in the source, the random
\* fault was raised in a heatup tick, the inverter has been switched off with
\* the fault showing, and the timeout has reset it.
C21_Witness ==
  /\ lastEvent.kind = "resetFault"
  /\ ~lastEvent.on
  /\ mode = "normal"
  /\ loadPercentage = 0
  /\ ~batteryConnected
  /\ ~faultCondition

\* A tick of the simulation interval has run its callback.
SimulationTick == ticks' = ticks + 1

\* What a tick does to the battery, by the branch it takes.
BatteryBranches ==
  IF inverterOn /\ batteryConnected
  THEN IF solarConnected /\ loadPercentage < 80
       THEN batteryCharging' /\ batteryLevel' >= batteryLevel
       ELSE IF loadPercentage > 0
            THEN ~batteryCharging' /\ batteryLevel' <= batteryLevel
            ELSE ~batteryCharging' /\ batteryLevel' = batteryLevel
  ELSE UNCHANGED <<batteryLevel, batteryCharging>>

\* C22 as stated: on every tick with the inverter on and the battery
\* connected, charging (solar connected, load below 80) sets batteryCharging
\* and does not lower batteryLevel, discharging (load above 0) clears
\* batteryCharging and does not raise batteryLevel, and otherwise
\* batteryCharging is cleared and batteryLevel kept; with the battery not
\* connected or the inverter off a tick changes neither.
C22_BatteryTick == [][SimulationTick => BatteryBranches]_vars

\* C22, amended: the same, for an inverter mounted with the batteryLevel prop
\* within [0,100].
C22_BatteryTickInRange ==
  [][(SimulationTick /\ props.batteryLevel >= 0
        /\ props.batteryLevel <= 100 * BScale) => BatteryBranches]_vars

\* A heatup tick with the battery connected, the sun connected and a load of
\* 80 or more has discharged the battery.
C22_Witness ==
  /\ lastEvent.kind = "heatupTick"
  /\ batteryConnected /\ solarConnected
  /\ lastEvent.load >= 80
  /\ props.batteryLevel = 100 * BScale
  /\ ~batteryCharging
  /\ batteryLevel < lastEvent.battery

\* An animation started by an activation is still running: its reset
\* timeout is pending and not yet due.
AnimationRunning(q) ==
  \E i \in 1..Len(q) : q[i].cb = "resetAnimation" /\ Live(q[i]) /\ q[i].rem > 0

\* C23: a click on Activate (isActive FALSE before it) leaves isAnimating
\* TRUE, and a step that resets isAnimating to FALSE leaves no animation
\* running: the reset comes only once the 3 seconds of the most recent
\* activation are over.
C23_AnimationReset ==
  [][/\ (activationClicks' = activationClicks + 1 /\ ~isActive) => isAnimating'
     /\ (isAnimating /\ ~isAnimating') => ~AnimationRunning(timers')]_vars

====
